---- MODULE Spec2Model ----
\* SpheremapTool (src/src/main.cpp): conversion of a six-face cubemap into a
\* paraboloid spheremap.  The model follows main() step by step and gives the
\* Cubemap methods and the colour helpers as operators.
\*
\* Number representation.  The program computes in float; the model computes
\* the same expressions over exact reals.  Every real that occurs is of the
\* form  sg * sqrt(sq) / den  (sg in {-1,0,1}, sq and den naturals), so that
\* comparisons, divisions and the float-to-int truncation are decided exactly
\* with integer arithmetic.  A u32 is a vector of 32 bits (bit 0 = least
\* significant), so that shifts, masks and ors are the machine's.
EXTENDS Integers, Naturals, Sequences, FiniteSets, TLC

\* ---------------------------------------------------------------- bounds
MaxSize == 3
MaxFaceDim == 3
MaxCoord == 2

\* ------------------------------------------------------ program constants
NUM_FACES == 6
AAScale == 16
IntMin == (0 - 2147483647) - 1

FACE_POS_X == 0
FACE_NEG_X == 1
FACE_POS_Y == 2
FACE_NEG_Y == 3
FACE_POS_Z == 4
FACE_NEG_Z == 5

Faces == 0 .. (NUM_FACES - 1)

VARIABLES pc, exit_status, num_aa_samples, output_size, fname_prefix,
          out_data, writes, faces, nloaded, y, x, sample,
          sample_r, sample_g, sample_b, cur, encoded, call

vars == <<pc, exit_status, num_aa_samples, output_size, fname_prefix,
          out_data, writes, faces, nloaded, y, x, sample,
          sample_r, sample_g, sample_b, cur, encoded, call>>

\* ------------------------------------------------------------- u32 / u8
Min(a, b) == IF a < b THEN a ELSE b

Pow2(k) == 2 ^ k

\* the 32 bits of a non-negative int
Bits(n) == [i \in 0 .. 31 |-> IF i >= 31 THEN 0 ELSE (n \div Pow2(i)) % 2]

Shl(v, k) == [i \in 0 .. 31 |-> IF i >= k THEN v[i - k] ELSE 0]

Shr(v, k) == [i \in 0 .. 31 |-> IF i + k <= 31 THEN v[i + k] ELSE 0]

BitOr(a, b) == [i \in 0 .. 31 |-> IF a[i] = 1 \/ b[i] = 1 THEN 1 ELSE 0]

BitAnd(a, b) == [i \in 0 .. 31 |-> IF a[i] = 1 /\ b[i] = 1 THEN 1 ELSE 0]

RECURSIVE LowBits(_, _)
LowBits(v, k) == IF k = 0 THEN 0 ELSE LowBits(v, k - 1) + v[k - 1] * Pow2(k - 1)

\* conversion of a 32-bit value to u8
ToU8(v) == LowBits(v, 8)

\* conversion of a small unsigned accumulator to u8 (argument passing)
U8(n) == n % 256

\* variant: red and blue exchanged (b | g << 8 | r << 16 | 0xFF << 24)
makeColor_BGR(r, g, b) ==
    BitOr(BitOr(BitOr(Bits(b), Shl(Bits(g), 8)), Shl(Bits(r), 16)), Shl(Bits(255), 24))

makeColor(r, g, b) ==
    BitOr(BitOr(BitOr(Bits(r), Shl(Bits(g), 8)), Shl(Bits(b), 16)), Shl(Bits(255), 24))

splitColor(col) ==
    [r |-> ToU8(BitAnd(Shr(col, 0), Bits(255))),
     g |-> ToU8(BitAnd(Shr(col, 8), Bits(255))),
     b |-> ToU8(BitAnd(Shr(col, 16), Bits(255)))]

\* a decoded RGBA8 texel (bytes R,G,B,A in memory) read as a u32
TexelWord(r, g, b, a) ==
    [i \in 0 .. 31 |-> IF i < 8 THEN Bits(r)[i]
                       ELSE IF i < 16 THEN Bits(g)[i - 8]
                       ELSE IF i < 24 THEN Bits(b)[i - 16]
                       ELSE Bits(a)[i - 24]]

ZeroWord == Bits(0)

GarbageWord == TexelWord(222, 173, 190, 239)

\* --------------------------------------------------------- input images
Prefixes == {"solid", "varied"}

SolidRGB(f) == [r |-> 10 + 40 * f, g |-> 200 - 30 * f, b |-> 3 + 50 * f]

FileTexel(prefix, f, tx, ty) ==
    IF prefix = "solid"
    THEN TexelWord(SolidRGB(f).r, SolidRGB(f).g, SolidRGB(f).b, 255)
    ELSE TexelWord((37 * f + 11 * tx + 5 * ty + 1) % 256,
                   (9 * f * f + 3 * tx + 4) % 256,
                   (250 - f - 100 * ty) % 256,
                   128)

FaceDims == {1, MaxFaceDim}

\* Image(): width(-1), height(-1), no data
EmptyImage == [ok |-> FALSE, width |-> 0 - 1, height |-> 0 - 1, texels |-> <<>>]

\* Image(filename) when stbi_load returns a buffer of w*h RGBA texels
DecodedImage(prefix, f, w, h) ==
    [ok |-> TRUE, width |-> w, height |-> h,
     texels |-> [i \in 1 .. (w * h) |-> FileTexel(prefix, f, (i - 1) % w, (i - 1) \div w)]]

\* Image(filename) when stbi_load returns NULL: data is null; width and height
\* are never initialised (the fields below are placeholders that no operator
\* reads: every use of such an image is an undefined read, see sampleFace)
FailedImage == [ok |-> FALSE, width |-> 0, height |-> 0, texels |-> <<>>]

\* --------------------------------------------------------------- reals
Sgn(n) == IF n > 0 THEN 1 ELSE IF n < 0 THEN 0 - 1 ELSE 0

\* the real sg*sqrt(sq)/den of a direction is kept as [sg, sq] next to den
Comp(n) == [sg |-> Sgn(n), sq |-> n * n]

NegC(c) == [sg |-> 0 - c.sg, sq |-> c.sq]

\* float unlerp(int val, int max): (val + 0.5) / max, in sixteenths
unlerp(val, max) == [num |-> AAScale * val + (AAScale \div 2), den |-> AAScale * max]

aa_pattern_none == << <<0, 0>> >>

aa_pattern_5x == << <<0, 0>>, <<0 - 3, 0 - 6>>, <<6, 0 - 3>>, <<3, 6>>, <<0 - 6, 3>> >>

aa_sample_pattern(n) == IF n = 5 THEN aa_pattern_5x ELSE aa_pattern_none

\* s = center_s + aa_sample_pattern[sample*2 + axis] * output_pixel_size
SubSample(center, k, axis, n) ==
    [num |-> center.num + aa_sample_pattern(n)[k + 1][axis + 1], den |-> center.den]

\* the direction of spheremap coordinates s = A/M, t = B/M
Projector(s, t) ==
    LET A == s.num
        B == t.num
        M == s.den
        Q == A * (M - A) + B * (M - B)
        P == 16 * Q - 4 * M * M
        Z == 8 * Q - 3 * M * M
    IN  IF P < 0
        THEN [vx |-> Comp(0), vy |-> Comp(0), vz |-> Comp(0 - 1), den |-> 1]
        ELSE [vx |-> [sg |-> Sgn(P) * Sgn(2 * A - M), sq |-> P * (2 * A - M) * (2 * A - M)],
              vy |-> [sg |-> 0 - (Sgn(P) * Sgn(2 * B - M)), sq |-> P * (2 * B - M) * (2 * B - M)],
              vz |-> Comp(Z),
              den |-> M * M]

\* a direction with integer components
IntDir(dx, dy, dz) == [vx |-> Comp(dx), vy |-> Comp(dy), vz |-> Comp(dz), den |-> 1]

\* ------------------------------------------------------------- Cubemap
\* variant: the axes tested in the order 2, 1, 0
MajorAxis_HighFirst(d) ==
    LET a0 == d.vx.sq
        a1 == d.vy.sq
        a2 == d.vz.sq
    IN  CASE a2 >= a0 /\ a2 >= a1 -> 2
          [] ~(a2 >= a0 /\ a2 >= a1) /\ (a1 >= a0 /\ a1 >= a2) -> 1
          [] ~(a2 >= a0 /\ a2 >= a1) /\ ~(a1 >= a0 /\ a1 >= a2) /\ (a0 >= a1 /\ a0 >= a2) -> 0

\* major axis: first of 0,1,2 whose magnitude is >= both others
MajorAxis(d) ==
    LET a0 == d.vx.sq
        a1 == d.vy.sq
        a2 == d.vz.sq
    IN  CASE a0 >= a1 /\ a0 >= a2 -> 0
          [] ~(a0 >= a1 /\ a0 >= a2) /\ (a1 >= a0 /\ a1 >= a2) -> 1
          [] ~(a0 >= a1 /\ a0 >= a2) /\ ~(a1 >= a0 /\ a1 >= a2) /\ (a2 >= a0 /\ a2 >= a1) -> 2

\* variant: the sign test inverted (v[major_axis] > 0 gives the odd code)
FaceCode_SwappedSign(d) ==
    LET ax == MajorAxis(d)
        v == <<d.vx, d.vy, d.vz>>
    IN  IF v[ax + 1].sg > 0 THEN ax * 2 + 1 ELSE ax * 2

FaceCode(d) ==
    LET ax == MajorAxis(d)
        v == <<d.vx, d.vy, d.vz>>
    IN  IF v[ax + 1].sg < 0 THEN ax * 2 + 1 ELSE ax * 2

\* variant: the +Z row divides by a[0]
FaceTable_WrongM(d, face) ==
    CASE face = 0 -> [tmp_s |-> NegC(d.vz), tmp_t |-> NegC(d.vy), m |-> d.vx.sq]
      [] face = 1 -> [tmp_s |-> d.vz,       tmp_t |-> NegC(d.vy), m |-> d.vx.sq]
      [] face = 2 -> [tmp_s |-> d.vx,       tmp_t |-> d.vz,       m |-> d.vy.sq]
      [] face = 3 -> [tmp_s |-> d.vx,       tmp_t |-> NegC(d.vz), m |-> d.vy.sq]
      [] face = 4 -> [tmp_s |-> d.vx,       tmp_t |-> NegC(d.vy), m |-> d.vx.sq]
      [] face = 5 -> [tmp_s |-> NegC(d.vx), tmp_t |-> NegC(d.vy), m |-> d.vz.sq]

\* variant: the -Z row takes tmp_s = x
FaceTable_WrongSign(d, face) ==
    CASE face = 0 -> [tmp_s |-> NegC(d.vz), tmp_t |-> NegC(d.vy), m |-> d.vx.sq]
      [] face = 1 -> [tmp_s |-> d.vz,       tmp_t |-> NegC(d.vy), m |-> d.vx.sq]
      [] face = 2 -> [tmp_s |-> d.vx,       tmp_t |-> d.vz,       m |-> d.vy.sq]
      [] face = 3 -> [tmp_s |-> d.vx,       tmp_t |-> NegC(d.vz), m |-> d.vy.sq]
      [] face = 4 -> [tmp_s |-> d.vx,       tmp_t |-> NegC(d.vy), m |-> d.vz.sq]
      [] face = 5 -> [tmp_s |-> d.vx,       tmp_t |-> NegC(d.vy), m |-> d.vz.sq]

\* tmp_s, tmp_t and m of the switch on the face code
FaceTable(d, face) ==
    CASE face = 0 -> [tmp_s |-> NegC(d.vz), tmp_t |-> NegC(d.vy), m |-> d.vx.sq]
      [] face = 1 -> [tmp_s |-> d.vz,       tmp_t |-> NegC(d.vy), m |-> d.vx.sq]
      [] face = 2 -> [tmp_s |-> d.vx,       tmp_t |-> d.vz,       m |-> d.vy.sq]
      [] face = 3 -> [tmp_s |-> d.vx,       tmp_t |-> NegC(d.vz), m |-> d.vy.sq]
      [] face = 4 -> [tmp_s |-> d.vx,       tmp_t |-> NegC(d.vy), m |-> d.vz.sq]
      [] face = 5 -> [tmp_s |-> NegC(d.vx), tmp_t |-> NegC(d.vy), m |-> d.vz.sq]

\* out = 0.5 * (tmp / m + 1), kept as the quotient tmp/m = sg*sqrt(n/d);
\* d = 0 with n = 0 is the float NaN (0/0), d = 0 with n > 0 an infinity
TexCoord(tmp, m) == [sg |-> tmp.sg, n |-> tmp.sq, d |-> m]

computeTexCoords(d) ==
    LET face == FaceCode(d)
        row == FaceTable(d, face)
    IN  [face |-> face, s |-> TexCoord(row.tmp_s, row.m), t |-> TexCoord(row.tmp_t, row.m)]

\* sg*sqrt(n/d) >= p/q  and  sg*sqrt(n/d) <= p/q   (d > 0, q > 0)
QuotGeq(c, p, q) ==
    IF c.sg >= 0
    THEN IF p <= 0 THEN TRUE ELSE c.sg > 0 /\ c.n * q * q >= p * p * c.d
    ELSE IF p > 0 THEN FALSE ELSE c.n * q * q <= p * p * c.d

QuotLeq(c, p, q) ==
    IF c.sg <= 0
    THEN IF p >= 0 THEN TRUE ELSE c.sg < 0 /\ c.n * q * q >= p * p * c.d
    ELSE IF p < 0 THEN FALSE ELSE c.n * q * q <= p * p * c.d

\* static_cast<int>(c * dim) for a finite c = 0.5*(quot + 1): truncation
\* toward zero of dim*(quot + 1)/2
TruncScaled(c, dim) ==
    LET top == dim * (2 + (c.n \div c.d))
    IN  IF QuotGeq(c, 0 - 1, 1)
        THEN CHOOSE k \in 0 .. top :
                /\ QuotGeq(c, 2 * k - dim, dim)
                /\ ~QuotGeq(c, 2 * (k + 1) - dim, dim)
        ELSE 0 - (CHOOSE k \in 0 .. top :
                /\ QuotLeq(c, 0 - (2 * k + dim), dim)
                /\ ~QuotLeq(c, 0 - (2 * (k + 1) + dim), dim))

\* the values static_cast<int> can produce: the conversion of a NaN or an
\* infinity is undefined (the "integer indefinite" value or 0 in practice)
ToIntScaled(c, dim) ==
    IF c.d = 0 THEN {IntMin, 0}
    ELSE IF dim = 0 THEN {0}
    ELSE {TruncScaled(c, dim)}

\* outcomes of an undefined read of the image buffer
UBReads == {[kind |-> "segv"], [kind |-> "value", col |-> GarbageWord]}

\* readTexel(face, x, y): the three asserts, then img_data[y * width + x]
readTexel(fs, face, tx, ty) ==
    IF ~(face < NUM_FACES) THEN {[kind |-> "assert"]}
    ELSE LET img == fs[face]
             idx == ty * img.width + tx
         IN  IF ~img.ok THEN UBReads \cup {[kind |-> "assert"]}
             ELSE IF ~(tx < img.width) THEN {[kind |-> "assert"]}
             ELSE IF ~(ty < img.height) THEN {[kind |-> "assert"]}
             ELSE IF tx = IntMin \/ ty = IntMin THEN UBReads
             ELSE IF idx >= 0 /\ idx < img.width * img.height
                  THEN {[kind |-> "value", col |-> img.texels[idx + 1]]}
                  ELSE UBReads

\* the texel coordinates sampleFace derives: min(int(s * width), width - 1)
TexelX(img, s) == {Min(v, img.width - 1) : v \in ToIntScaled(s, img.width)}

TexelY(img, t) == {Min(v, img.height - 1) : v \in ToIntScaled(t, img.height)}

\* sampleFace(face, s, t): the set of possible results with the coordinates
sampleFace(fs, face, s, t) ==
    LET img == fs[face]
    IN  IF ~img.ok
        THEN {[x |-> 0, y |-> 0, valid |-> FALSE, res |-> o] : o \in readTexel(fs, face, 0, 0)}
        ELSE UNION {{[x |-> tx, y |-> ty, valid |-> TRUE, res |-> o] : o \in readTexel(fs, face, tx, ty)} :
                      <<tx, ty>> \in TexelX(img, s) \X TexelY(img, t)}

\* ------------------------------------------------------------------ main
NoSample == [taken |-> FALSE, face |-> 0, s |-> TexCoord(Comp(0), 1), t |-> TexCoord(Comp(0), 1),
             x |-> 0, y |-> 0]

NoCall == [op |-> "none"]

NoFile == [written |-> FALSE, w |-> 0, h |-> 0, data |-> <<>>]

Init ==
    /\ pc = "start"
    /\ exit_status = 0 - 1
    /\ num_aa_samples = 1
    /\ output_size = 1024
    /\ fname_prefix = ""
    /\ out_data = <<>>
    /\ writes = <<>>
    /\ faces = [f \in Faces |-> EmptyImage]
    /\ nloaded = 0
    /\ y = 0
    /\ x = 0
    /\ sample = 0
    /\ sample_r = 0
    /\ sample_g = 0
    /\ sample_b = 0
    /\ cur = NoSample
    /\ encoded = NoFile
    /\ call = NoCall

\* the command lines: a run with -aa and -size, or one the parser rejects
Sizes == (0 - 1) .. MaxSize

AAInputs == {1, 2, 5}

\* lines 160-218: option parsing up to the positional parameter check
ParseArgs ==
    /\ pc = "start"
    /\ \/ \E aa \in AAInputs, size \in Sizes, prefix \in Prefixes :
            IF aa \in {1, 5}
            THEN /\ num_aa_samples' = aa
                 /\ output_size' = size
                 /\ fname_prefix' = prefix
                 /\ pc' = "alloc"
                 /\ UNCHANGED exit_status
            ELSE /\ num_aa_samples' = aa
                 /\ pc' = "exit"
                 /\ exit_status' = 1
                 /\ UNCHANGED <<output_size, fname_prefix>>
       \/ \E status \in {0, 1} :
            \* -h / -help returns 0; an unknown option or a wrong number of
            \* positional parameters returns 1
            /\ pc' = "exit"
            /\ exit_status' = status
            /\ UNCHANGED <<num_aa_samples, output_size, fname_prefix>>
    /\ UNCHANGED <<out_data, writes, faces, nloaded, y, x, sample,
                   sample_r, sample_g, sample_b, cur, encoded, call>>

\* line 220: std::vector<u32> out_data(output_size * output_size)
AllocOut ==
    /\ pc = "alloc"
    /\ out_data' = [i \in 1 .. (output_size * output_size) |-> ZeroWord]
    /\ writes' = [i \in 1 .. (output_size * output_size) |-> 0]
    /\ pc' = "load"
    /\ UNCHANGED <<exit_status, num_aa_samples, output_size, fname_prefix, faces, nloaded,
                   y, x, sample, sample_r, sample_g, sample_b, cur, encoded, call>>

\* the results stbi_load can give for one face file
LoadResults(prefix, f) ==
    {FailedImage} \cup {DecodedImage(prefix, f, w, w) : w \in FaceDims}

\* the first test of the loops at line 226
LoopEntry(n) == IF 0 < n THEN "sample" ELSE "write"

\* Cubemap constructor: one face per step, in the order of lines 52-57
LoadFace ==
    /\ pc = "load"
    /\ nloaded < NUM_FACES
    /\ \E img \in LoadResults(fname_prefix, nloaded) :
            faces' = [faces EXCEPT ![nloaded] = img]
    /\ nloaded' = nloaded + 1
    /\ pc' = IF nloaded + 1 = NUM_FACES THEN LoopEntry(output_size) ELSE "load"
    /\ UNCHANGED <<exit_status, num_aa_samples, output_size, fname_prefix, out_data, writes,
                   y, x, sample, sample_r, sample_g, sample_b, cur, encoded, call>>

\* the direction of sub-sample k of pixel (px, py), lines 228-248
SampleDirection(px, py, k, n, size) ==
    Projector(SubSample(unlerp(px, size), k, 0, n), SubSample(unlerp(py, size), k, 1, n))

\* lines 233-260: one iteration of the sub-sample loop
Sample ==
    /\ pc = "sample"
    /\ LET dir == SampleDirection(x, y, sample, num_aa_samples, output_size)
           tc == computeTexCoords(dir)
       IN  \E o \in sampleFace(faces, tc.face, tc.s, tc.t) :
             /\ cur' = [taken |-> TRUE, face |-> tc.face, s |-> tc.s, t |-> tc.t,
                        x |-> o.x, y |-> o.y]
             /\ IF o.res.kind = "value"
                THEN LET c == splitColor(o.res.col)
                     IN  /\ sample_r' = sample_r + c.r
                         /\ sample_g' = sample_g + c.g
                         /\ sample_b' = sample_b + c.b
                         /\ sample' = sample + 1
                         /\ pc' = IF sample + 1 < num_aa_samples THEN "sample" ELSE "store"
                ELSE /\ pc' = IF o.res.kind = "assert" THEN "aborted" ELSE "crashed"
                     /\ UNCHANGED <<sample, sample_r, sample_g, sample_b>>
    /\ UNCHANGED <<exit_status, num_aa_samples, output_size, fname_prefix, out_data, writes,
                   faces, nloaded, y, x, encoded, call>>

\* variant: a rounding average
Average_Rounded(sum, k) == (sum + (k \div 2)) \div k

\* lines 262-264: sample_c /= num_aa_samples
Average(sum, k) == sum \div k

\* variant: the column index replaced by the row index
OutIndex_RowOnly(px, py, size) == py * size + py + 1

\* line 266: the index y * output_size + x (sequences count from 1)
OutIndex(px, py, size) == py * size + px + 1

\* lines 262-266: average the sums, pack and store the pixel
StorePixel ==
    /\ pc = "store"
    /\ LET idx == OutIndex(x, y, output_size)
           col == makeColor(U8(Average(sample_r, num_aa_samples)),
                            U8(Average(sample_g, num_aa_samples)),
                            U8(Average(sample_b, num_aa_samples)))
       IN  /\ out_data' = [out_data EXCEPT ![idx] = col]
           /\ writes' = [writes EXCEPT ![idx] = @ + 1]
    /\ pc' = "stored"
    /\ UNCHANGED <<exit_status, num_aa_samples, output_size, fname_prefix, faces, nloaded,
                   y, x, sample, sample_r, sample_g, sample_b, cur, encoded, call>>

\* the steps and tests of the loops at lines 226-227, and line 231 on entry
\* of the next pixel
NextPixel ==
    /\ pc = "stored"
    /\ IF x + 1 < output_size
       THEN /\ x' = x + 1
            /\ y' = y
            /\ pc' = "sample"
       ELSE IF y + 1 < output_size
       THEN /\ x' = 0
            /\ y' = y + 1
            /\ pc' = "sample"
       ELSE /\ x' = x + 1
            /\ y' = y + 1
            /\ pc' = "write"
    /\ IF pc' = "sample"
       THEN /\ sample_r' = 0
            /\ sample_g' = 0
            /\ sample_b' = 0
            /\ sample' = 0
       ELSE UNCHANGED <<sample, sample_r, sample_g, sample_b>>
    /\ UNCHANGED <<exit_status, num_aa_samples, output_size, fname_prefix, out_data, writes,
                   faces, nloaded, cur, encoded, call>>

\* line 271: stbi_write_bmp(output_fname, output_size, output_size, 4, out_data.data())
WriteBmp ==
    /\ pc = "write"
    /\ encoded' = [written |-> TRUE, w |-> output_size, h |-> output_size, data |-> out_data]
    /\ exit_status' = 0
    /\ pc' = "done"
    /\ UNCHANGED <<num_aa_samples, output_size, fname_prefix, out_data, writes, faces, nloaded,
                   y, x, sample, sample_r, sample_g, sample_b, cur, call>>

Next == ParseArgs \/ AllocOut \/ LoadFace \/ Sample \/ StorePixel \/ NextPixel \/ WriteBmp

Spec == Init /\ [][Next]_vars

\* ------------------------------------------------- calls of the functions
ByteSamples == {0, 1, 2, 127, 128, 254, 255}

Coords == (0 - MaxCoord) .. MaxCoord

TexelArgs == (0 - 1) .. MaxFaceDim

\* a cubemap whose six faces decoded
UnitInit ==
    /\ pc = "unit"
    /\ exit_status = 0 - 1
    /\ num_aa_samples = 1
    /\ output_size = 1024
    /\ fname_prefix = "varied"
    /\ out_data = <<>>
    /\ writes = <<>>
    /\ \E w \in FaceDims : faces = [f \in Faces |-> DecodedImage("varied", f, w, w)]
    /\ nloaded = NUM_FACES
    /\ y = 0
    /\ x = 0
    /\ sample = 0
    /\ sample_r = 0
    /\ sample_g = 0
    /\ sample_b = 0
    /\ cur = NoSample
    /\ encoded = NoFile
    /\ call = NoCall

\* one call per behaviour: the call returns and the harness stops
UnitFrame ==
    /\ pc' = "returned"
    /\ UNCHANGED <<exit_status, num_aa_samples, output_size, fname_prefix, out_data, writes,
                faces, nloaded, y, x, sample, sample_r, sample_g, sample_b, cur, encoded>>

CallReadTexel ==
    /\ pc = "unit"
    /\ \E f \in Faces, tx \in TexelArgs, ty \in TexelArgs :
         \E o \in readTexel(faces, f, tx, ty) :
            call' = [op |-> "readTexel", face |-> f, x |-> tx, y |-> ty, res |-> o]
    /\ UnitFrame

CallComputeTexCoords ==
    /\ pc = "unit"
    /\ \E dx \in Coords, dy \in Coords, dz \in Coords :
            call' = [op |-> "computeTexCoords", dir |-> <<dx, dy, dz>>,
                     kind |-> "returned", out |-> computeTexCoords(IntDir(dx, dy, dz))]
    /\ UnitFrame

CallSampleFace ==
    /\ pc = "unit"
    /\ \E dx \in Coords, dy \in Coords, dz \in Coords :
         LET tc == computeTexCoords(IntDir(dx, dy, dz))
         IN  \E o \in sampleFace(faces, tc.face, tc.s, tc.t) :
                call' = [op |-> "sampleFace", dir |-> <<dx, dy, dz>>, face |-> tc.face,
                         x |-> o.x, y |-> o.y, res |-> o.res]
    /\ UnitFrame

CallMakeColor ==
    /\ pc = "unit"
    /\ \E r \in ByteSamples, g \in ByteSamples, b \in ByteSamples :
            call' = [op |-> "makeColor", r |-> r, g |-> g, b |-> b,
                     col |-> makeColor(r, g, b), back |-> splitColor(makeColor(r, g, b))]
    /\ UnitFrame

UnitNext == CallReadTexel \/ CallComputeTexCoords \/ CallSampleFace \/ CallMakeColor

UnitSpec == UnitInit /\ [][UnitNext]_vars

\* ---------------------------------------------------------------- claims
\* faces whose decoding has been attempted and failed
LoadFailed == \E f \in Faces : f < nloaded /\ ~faces[f].ok

AllLoaded == nloaded = NUM_FACES /\ \A f \in Faces : faces[f].ok

\* the byte k of a 32-bit word
ByteAt(w, k) ==
    w[8 * k] + 2 * w[8 * k + 1] + 4 * w[8 * k + 2] + 8 * w[8 * k + 3] + 16 * w[8 * k + 4]
    + 32 * w[8 * k + 5] + 64 * w[8 * k + 6] + 128 * w[8 * k + 7]

\* 0.5*(quot + 1) lies in [0,1]: the quotient is finite and |quot| <= 1
InUnit(c) == c.d > 0 /\ c.n <= c.d

Abs(n) == IF n < 0 THEN 0 - n ELSE n

\* C1: once one of the six face images has failed to decode, the run aborts
\* with a load error: no texel is ever sampled and no output file is written.
C1_LoadFailureAborts ==
    (LoadFailed /\ output_size > 0) =>
                  /\ ~cur.taken
                  /\ ~encoded.written
                  /\ pc \notin {"sample", "store", "stored", "write", "done"}

\* C2: a non-positive output size is a configuration error found before any
\* face is loaded: no face load and no output write is reached, and the
\* process exits with a non-zero status.
C2_NonPositiveSizeRejected ==
    (pc # "start" /\ output_size <= 0) =>
        /\ nloaded = 0
        /\ ~encoded.written
        /\ pc \in {"alloc", "exit"}
        /\ (pc = "exit" => exit_status # 0)

\* C3: with six decoded square faces, every sub-sample resolves to face
\* coordinates within [0,1] and sampleFace passes readTexel texel coordinates
\* with 0 <= x < width and 0 <= y < height.
C3_TexelInRange ==
    (cur.taken /\ AllLoaded) =>
        /\ InUnit(cur.s)
        /\ InUnit(cur.t)
        /\ 0 <= cur.x /\ cur.x < faces[cur.face].width
        /\ 0 <= cur.y /\ cur.y < faces[cur.face].height

C3_Witness ==
    /\ cur.taken
    /\ AllLoaded
    /\ num_aa_samples = 5
    /\ sample >= 2
    /\ output_size = MaxSize
    /\ faces[cur.face].width = MaxFaceDim
    /\ cur.x = MaxFaceDim - 1
    /\ cur.y = 0

\* C4: a contract violation is fatal: readTexel with an out-of-range
\* coordinate, and face resolution of the direction (0,0,0), each end in an
\* assertion failure and never return a colour or a face coordinate.
C4_ContractViolationFatal ==
    /\ (call.op = "readTexel" /\ (\/ call.x < 0
                                  \/ call.x >= faces[call.face].width
                                  \/ call.y < 0
                                  \/ call.y >= faces[call.face].height))
          => call.res.kind = "assert"
    /\ (call.op = "computeTexCoords" /\ call.dir = <<0, 0, 0>>) => call.kind = "assert"

\* the face table of the specification, for a direction of integers:
\* <<tmp_s, tmp_t, m>> per face code
SpecRow(v, face) ==
    CASE face = 0 -> <<0 - v[3], 0 - v[2], Abs(v[1])>>
      [] face = 1 -> <<v[3],     0 - v[2], Abs(v[1])>>
      [] face = 2 -> <<v[1],     v[3],     Abs(v[2])>>
      [] face = 3 -> <<v[1],     0 - v[3], Abs(v[2])>>
      [] face = 4 -> <<v[1],     0 - v[2], Abs(v[3])>>
      [] face = 5 -> <<0 - v[1], 0 - v[2], Abs(v[3])>>

\* the coordinate c is 0.5*(tmp/m + 1) for integers tmp and m > 0
IsCoord(c, tmp, m) == c.d > 0 /\ c.sg = Sgn(tmp) /\ c.n * m * m = tmp * tmp * c.d

\* C5: for a direction other than (0,0,0) the resolved face is that of a
\* largest-magnitude axis with the sign of its component (2*axis, or 2*axis+1
\* when negative), s and t are 0.5*(tmp/m + 1) of the face table, and both
\* lie in [0,1].
C5_ResolveDirection ==
    (call.op = "computeTexCoords" /\ call.dir # <<0, 0, 0>>) =>
        LET v == call.dir
            face == call.out.face
            ax == face \div 2
            row == SpecRow(v, face)
        IN  /\ face \in 0 .. 5
            /\ \A i \in 1 .. 3 : Abs(v[ax + 1]) >= Abs(v[i])
            /\ (face % 2 = 1) <=> (v[ax + 1] < 0)
            /\ IsCoord(call.out.s, row[1], row[3])
            /\ IsCoord(call.out.t, row[2], row[3])
            /\ Abs(row[1]) <= row[3] /\ Abs(row[2]) <= row[3]
            /\ InUnit(call.out.s) /\ InUnit(call.out.t)

C5_Witness ==
    /\ call.op = "computeTexCoords"
    /\ call.dir = <<1, 0 - 2, 1>>
    /\ call.out.face = 3
    /\ call.out.s = [sg |-> 1, n |-> 1, d |-> 4]

\* C6: among components of equal largest magnitude the lowest axis index is
\* chosen; (1,1,0) resolves to +X and (0,1,1) to +Y.
C6_TieBreak ==
    (call.op = "computeTexCoords" /\ call.dir # <<0, 0, 0>>) =>
        LET v == call.dir
            ax == call.out.face \div 2
        IN  /\ \A i \in 1 .. 3 : (i < ax + 1) => Abs(v[i]) < Abs(v[ax + 1])
            /\ (v = <<1, 1, 0>>) => call.out.face = 0
            /\ (v = <<0, 1, 1>>) => call.out.face = 2

C6_Witness ==
    /\ call.op = "computeTexCoords"
    /\ call.dir = <<0, 1, 1>>
    /\ call.out.face = 2

\* C7: the stored channel of a pixel is the truncated quotient S / K of the
\* accumulated sum S and the sample count K, it is in 0..255, and the sums
\* stay within K * 255.
C7_TruncatingAverage ==
    (pc = "stored") =>
        LET w == out_data[y * output_size + x + 1]
            K == num_aa_samples
            Holds(c, S) == /\ c \in 0 .. 255
                           /\ S <= 255 * K
                           /\ c * K <= S
                           /\ S < (c + 1) * K
        IN  /\ K \in {1, 5}
            /\ Holds(ByteAt(w, 0), sample_r)
            /\ Holds(ByteAt(w, 1), sample_g)
            /\ Holds(ByteAt(w, 2), sample_b)

C7_Witness ==
    /\ pc = "stored"
    /\ num_aa_samples = 5
    /\ sample_r % 5 = 2
    /\ ByteAt(out_data[y * output_size + x + 1], 0) * 5 + 2 = sample_r

\* C8: splitColor(makeColor(r,g,b)) = (r,g,b); makeColor puts r in bits 0..7,
\* g in bits 8..15, b in bits 16..23, and the top byte is 0xFF.
C8_PackRoundTrip ==
    (call.op = "makeColor") =>
        /\ call.back = [r |-> call.r, g |-> call.g, b |-> call.b]
        /\ ByteAt(call.col, 0) = call.r
        /\ ByteAt(call.col, 1) = call.g
        /\ ByteAt(call.col, 2) = call.b
        /\ ByteAt(call.col, 3) = 255

C8_Witness ==
    /\ call.op = "makeColor"
    /\ call.r = 254 /\ call.g = 1 /\ call.b = 128
    /\ call.back.g = 1

\* the solid colour of the input face f, as the decoder delivers it
InputColor(f) == TexelWord(10 + 40 * f, 200 - 30 * f, 3 + 50 * f, 255)

\* the face a pixel centre of an N x N output looks at: the direction of the
\* paraboloid at (u,v) = (2px+1-N, 2py+1-N)/N is
\* (r*u, -r*v, 1 - 2(u^2+v^2)) with r = 2*sqrt(1 - u^2 - v^2), or the back
\* pole outside the unit disc; its signed squares are compared
PixelFace(px, py, N) ==
    LET u == 2 * px + 1 - N
        v == 2 * py + 1 - N
        rho == u * u + v * v
        z == N * N - 2 * rho
        ax == 4 * (N * N - rho) * u * u
        ay == 4 * (N * N - rho) * v * v
    IN  IF rho > N * N THEN 5
        ELSE IF ax >= ay /\ ax >= z * z THEN (IF u < 0 /\ ax > 0 THEN 1 ELSE 0)
        ELSE IF ay >= z * z THEN (IF v > 0 THEN 3 ELSE 2)
        ELSE (IF z < 0 THEN 5 ELSE 4)

\* C9: with one sample per pixel and six distinct solid opaque faces every
\* stored pixel is exactly the input colour of the face its direction
\* resolves to.
C9_SolidFacesNoBlend ==
    (num_aa_samples = 1 /\ fname_prefix = "solid" /\ AllLoaded /\ pc \notin {"start", "alloc", "exit"}) =>
        \A px \in 0 .. (output_size - 1), py \in 0 .. (output_size - 1) :
            LET i == py * output_size + px + 1
            IN  writes[i] >= 1 =>
                    /\ out_data[i] = InputColor(PixelFace(px, py, output_size))
                    /\ \E f \in Faces : out_data[i] = InputColor(f)

C9_Witness ==
    /\ pc = "done"
    /\ num_aa_samples = 1
    /\ fname_prefix = "solid"
    /\ AllLoaded
    /\ output_size = MaxSize
    /\ \A f \in Faces : \E i \in DOMAIN out_data : encoded.data[i] = InputColor(f)

\* C10: the output buffer has size*size entries from its creation on, every
\* entry has been written exactly once when it is handed to the encoder, and
\* the encoder is not called before the last pixel is stored.
C10_BufferWrittenOnce ==
    /\ (pc \notin {"start", "exit", "alloc", "unit", "returned"}) =>
            /\ DOMAIN out_data = 1 .. (output_size * output_size)
            /\ DOMAIN writes = DOMAIN out_data
    /\ (pc \in {"write", "done"}) =>
            \A px \in 0 .. (output_size - 1), py \in 0 .. (output_size - 1) :
                writes[py * output_size + px + 1] = 1
    /\ encoded.written => (pc = "done" /\ encoded.data = out_data
                           /\ encoded.w = output_size /\ encoded.h = output_size)
    /\ (pc \in {"load", "sample", "store", "stored", "write", "aborted", "crashed"}) => ~encoded.written

C10_Witness ==
    /\ pc = "done"
    /\ encoded.written
    /\ num_aa_samples = 5
    /\ output_size = MaxSize
    /\ \A i \in DOMAIN writes : writes[i] = 1

====
